---- MODULE Spec2Model ----
(***************************************************************************)
(* Model of the orderstracker package (tracker.go, order.go,               *)
(* executionreport.go): the Tracker's two maps, and one action per public  *)
(* method.  Every method runs under the tracker's mutex from its first     *)
(* statement to its return, so in Spec each method is one atomic step.     *)
(* ConcSpec runs the methods in goroutines, with the mutex and the steps   *)
(* of OrderPlacing spelled out; GenSpec runs GenerateClientOrderID.        *)
(***************************************************************************)
EXTENDS Integers, FiniteSets, Sequences, TLC

\* ------------------------------------------------------------------ bounds
\* Width in bits of the model's unsigned integers (uint64 in the source).
WordBits == 2

Modulus == 2 ^ WordBits

\* Wrap-around of Go's unsigned arithmetic.
Uint(n) == n % Modulus

\* ------------------------------------------------------------- input sets
\* Client ids under which orders are placed and looked up.
ClientIDs == {"c1", "c2"}
\* Client ids the strategy and the exchange gateway act on after placement:
\* c1 goes through the whole state machine in the presence of c2, which is
\* only ever placed.
ActiveIDs == {"c1"}
\* ExchangeBinance, ExchangeKraken
Exchanges == {1, 2}
Symbols == {"BTC"}
\* time.Time values handed to the tracker; ZeroTime is Go's zero time.Time.
ZeroTime == 0
Times == {1}
Reasons == {"r1"}
\* Order.Amount and Order.Price of a placed order.
OrderAmounts == {1}
OrderPrices == {1}
\* The price of a confirmed move.
MovePrices == {2}
\* executedAmount and avgPrice of a fill.
FillAmounts == {0, 1, 2}
FillPrices == {1, 2}
\* bid and ask of a quote (a crossed one: bid > ask).
Bids == {2}
Asks == {1}

\* ------------------------------------------------------------- data types
\* An OrderStatus is modelled by its String() name ("Unplaced", "Placing",
\* "Placed", "Modifying", "Canceling", "Filled"), an ExecutionReportKind by the
\* name of its constant without the Report prefix ("None", "Placed",
\* "Modified", "Canceled", "Filled", "Rejected").

\* Order values a caller may hand to OrderPlacing.
Orders ==
    [ClientID : ClientIDs, Exchange : Exchanges, Symbol : Symbols,
     Amount : OrderAmounts, Price : OrderPrices]

\* Go zero values.
ZeroOrder == [ClientID |-> "", Exchange |-> 0, Symbol |-> "", Amount |-> 0, Price |-> 0]

ZeroReport == [Kind |-> "None", Time |-> ZeroTime, Message |-> "", Amount |-> 0, Price |-> 0]

\* A nil *orderContext.  An orderContext is created once per client id and is
\* never replaced or removed, so a pointer to it is modelled by that id.
NilContext == "nil"

ZeroMarketData == [bid |-> 0, ask |-> 0, orderContext |-> NilContext]

\* Errors, by the kind of their message.
ErrNone == "nil"
ErrDuplicateOrder == "DuplicateOrder"
ErrOrderNotFound == "OrderNotFound"
ErrInvalidTransition == "InvalidTransition"
\* run-time panic: integer divide by zero
Panic == "panic"

\* ------------------------------------------------------------------ state
VARIABLES
    orders,     \* Tracker.orders: client id -> orderContext
    exchanges,  \* Tracker.exchanges: exchange -> symbol -> marketData
    call,       \* the last method call and its arguments
    ret,        \* the error that call returned
    out,        \* what that call left in the caller's variables
    guard,      \* Tracker.guard: the state of the mutex
    goroutines, \* per goroutine: where it is in its call, the call, its result
    now,        \* the wall clock, in seconds (time.Now().Unix())
    clientIDCounter, \* the package's atomic counter
    generators, \* per goroutine inside GenerateClientOrderID: its position
    issued      \* the client ids GenerateClientOrderID has returned, in order

concVars == <<guard, goroutines>>

genVars == <<now, clientIDCounter, generators, issued>>

vars == <<orders, exchanges, call, ret, out, guard, goroutines,
          now, clientIDCounter, generators, issued>>

\* m[k] of a Go map: the zero value when the key is absent.
MapGet(m, k, zero) == IF k \in DOMAIN m THEN m[k] ELSE zero

\* m[k] = v of a Go map.
MapPut(m, k, v) == [x \in DOMAIN m \cup {k} |-> IF x = k THEN v ELSE m[x]]

EmptyMap == [x \in {} |-> 0]

\* The caller's variables after a call that has no outputs.
NoOutput == [status |-> "Unplaced", order |-> ZeroOrder, report |-> ZeroReport, count |-> 0]

\* The goroutines that call the tracker and the generator concurrently.
Goroutines == {"g1", "g2", "g3"}

\* sync.Mutex
Unlocked == "unlocked"
Locked == "locked"

\* A goroutine that has made no call yet.
Idle == [pc |-> "idle", call |-> [op |-> "none"], ret |-> ErrNone, out |-> NoOutput]

\* NewTracker and the zero value of the package's counter, with callers that
\* have made no call yet.
Init ==
    /\ orders = EmptyMap
    /\ exchanges = EmptyMap
    /\ call = [op |-> "NewTracker"]
    /\ ret = ErrNone
    /\ out = NoOutput
    /\ guard = Unlocked
    /\ goroutines = [g \in Goroutines |-> Idle]
    /\ now = 1
    /\ clientIDCounter = 0
    /\ generators = [g \in Goroutines |-> [pc |-> "idle", unix |-> 0]]
    /\ issued = << >>

\* The last call of a single caller and the error it returned: the call
\* locks and unlocks the mutex within the step, and no goroutine moves.
Called(c, err) ==
    /\ call' = c
    /\ ret' = err
    /\ UNCHANGED <<concVars, genVars>>

\* ------------------------------------------------------------ OrderPlacing
\* Mutant: OrderPlacing stores a fresh marketData with the pointer.
PlacingExchangesFresh(exs, order) ==
    LET exchange == MapGet(exs, order.Exchange, EmptyMap)
    IN  MapPut(exs, order.Exchange,
               MapPut(exchange, order.Symbol,
                      [ZeroMarketData EXCEPT !.orderContext = order.ClientID]))

\* The Market Index after OrderPlacing stored the new context's pointer.
PlacingExchanges(exs, order) ==
    LET exchange == MapGet(exs, order.Exchange, EmptyMap)
        symbolContext == MapGet(exchange, order.Symbol, ZeroMarketData)
    IN  MapPut(exs, order.Exchange,
               MapPut(exchange, order.Symbol,
                      [symbolContext EXCEPT !.orderContext = order.ClientID]))

\* Mutant: the new context starts as already placed.
PlacingContextPlaced(order) == [Status |-> "Placed", Order |-> order, LastReport |-> ZeroReport]

\* The context OrderPlacing creates.
PlacingContext(order) == [Status |-> "Placing", Order |-> order, LastReport |-> ZeroReport]

\* Mutant: the Market Index is written before the duplicate check.
OrderPlacingIndexFirst(order) ==
    /\ IF order.ClientID \in DOMAIN orders
       THEN /\ Called([op |-> "OrderPlacing", order |-> order], ErrDuplicateOrder)
            /\ UNCHANGED orders
       ELSE /\ Called([op |-> "OrderPlacing", order |-> order], ErrNone)
            /\ orders' = MapPut(orders, order.ClientID, PlacingContext(order))
    /\ exchanges' = PlacingExchanges(exchanges, order)
    /\ out' = NoOutput

OrderPlacing(order) ==
    /\ IF order.ClientID \in DOMAIN orders
       THEN /\ Called([op |-> "OrderPlacing", order |-> order], ErrDuplicateOrder)
            /\ UNCHANGED <<orders, exchanges>>
       ELSE /\ Called([op |-> "OrderPlacing", order |-> order], ErrNone)
            /\ orders' = MapPut(orders, order.ClientID, PlacingContext(order))
            /\ exchanges' = PlacingExchanges(exchanges, order)
    /\ out' = NoOutput

\* ------------------------------------------------ methods on one context
\* Each XxxResult is the body of method Xxx after the lookup succeeded: the
\* context as the method leaves it, and the error it returns.

\* Mutant: the status is checked before the report is written.
PlaceConfirmedResultChecksFirst(ctx, time) ==
    IF ctx.Status # "Placing"
    THEN [ctx |-> ctx, err |-> ErrInvalidTransition]
    ELSE [ctx |-> [ctx EXCEPT !.Status = "Placed", !.LastReport.Kind = "Placed",
                              !.LastReport.Time = time],
          err |-> ErrNone]

PlaceConfirmedResult(ctx, time) ==
    LET reported == [ctx EXCEPT !.LastReport.Kind = "Placed", !.LastReport.Time = time]
    IN  IF ctx.Status # "Placing"
        THEN [ctx |-> reported, err |-> ErrInvalidTransition]
        ELSE [ctx |-> [reported EXCEPT !.Status = "Placed"], err |-> ErrNone]

\* Mutant: every accepted rejection unplaces the order.
RejectedResultUnplaces(ctx, time, reason) ==
    LET reported == [ctx EXCEPT !.LastReport.Kind = "Rejected",
                                !.LastReport.Time = time,
                                !.LastReport.Message = reason]
    IN  IF ctx.Status \in {"Placing", "Modifying", "Canceling"}
        THEN [ctx |-> [reported EXCEPT !.Status = "Unplaced"], err |-> ErrNone]
        ELSE [ctx |-> reported, err |-> ErrInvalidTransition]

RejectedResult(ctx, time, reason) ==
    LET reported == [ctx EXCEPT !.LastReport.Kind = "Rejected",
                                !.LastReport.Time = time,
                                !.LastReport.Message = reason]
    IN  IF ctx.Status = "Placing"
        THEN [ctx |-> [reported EXCEPT !.Status = "Unplaced"], err |-> ErrNone]
        ELSE IF ctx.Status = "Modifying" \/ ctx.Status = "Canceling"
        THEN [ctx |-> [reported EXCEPT !.Status = "Placed"], err |-> ErrNone]
        ELSE [ctx |-> reported, err |-> ErrInvalidTransition]

\* Mutant: the start of a move leaves the report kind as it was.
MovingResultKeepsKind(ctx) ==
    IF ctx.Status # "Placed"
    THEN [ctx |-> ctx, err |-> ErrInvalidTransition]
    ELSE [ctx |-> [ctx EXCEPT !.Status = "Modifying"], err |-> ErrNone]

MovingResult(ctx) ==
    IF ctx.Status # "Placed"
    THEN [ctx |-> ctx, err |-> ErrInvalidTransition]
    ELSE [ctx |-> [ctx EXCEPT !.Status = "Modifying", !.LastReport.Kind = "None"],
          err |-> ErrNone]

\* Mutant: the order's price is written with the report, before the check.
MoveConfirmedResultPriceFirst(ctx, time, price) ==
    LET reported == [ctx EXCEPT !.LastReport.Kind = "Modified",
                                !.LastReport.Time = time,
                                !.LastReport.Price = price,
                                !.Order.Price = price]
    IN  IF ctx.Status # "Modifying"
        THEN [ctx |-> reported, err |-> ErrInvalidTransition]
        ELSE [ctx |-> [reported EXCEPT !.Status = "Placed"], err |-> ErrNone]

MoveConfirmedResult(ctx, time, price) ==
    LET reported == [ctx EXCEPT !.LastReport.Kind = "Modified",
                                !.LastReport.Time = time,
                                !.LastReport.Price = price]
    IN  IF ctx.Status # "Modifying"
        THEN [ctx |-> reported, err |-> ErrInvalidTransition]
        ELSE [ctx |-> [reported EXCEPT !.Status = "Placed", !.Order.Price = price],
              err |-> ErrNone]

\* Mutant: the report kind is cleared before the status is checked.
CancellingResultClearsFirst(ctx) ==
    LET cleared == [ctx EXCEPT !.LastReport.Kind = "None"]
    IN  IF ctx.Status # "Placed"
        THEN [ctx |-> cleared, err |-> ErrInvalidTransition]
        ELSE [ctx |-> [cleared EXCEPT !.Status = "Canceling"], err |-> ErrNone]

CancellingResult(ctx) ==
    IF ctx.Status # "Placed"
    THEN [ctx |-> ctx, err |-> ErrInvalidTransition]
    ELSE [ctx |-> [ctx EXCEPT !.Status = "Canceling", !.LastReport.Kind = "None"],
          err |-> ErrNone]

\* Mutant: a cancel confirmation unplaces the order whatever its status.
CancelConfirmedResultAlways(ctx, time) ==
    LET reported == [ctx EXCEPT !.LastReport.Kind = "Canceled", !.LastReport.Time = time]
    IN  [ctx |-> [reported EXCEPT !.Status = "Unplaced"],
         err |-> IF ctx.Status # "Canceling" THEN ErrInvalidTransition ELSE ErrNone]

CancelConfirmedResult(ctx, time) ==
    LET reported == [ctx EXCEPT !.LastReport.Kind = "Canceled", !.LastReport.Time = time]
    IN  IF ctx.Status # "Canceling"
        THEN [ctx |-> reported, err |-> ErrInvalidTransition]
        ELSE [ctx |-> [reported EXCEPT !.Status = "Unplaced"], err |-> ErrNone]

\* Mutant: a fill also writes its price into the order.
FilledResultMovesPrice(ctx, time, executedAmount, avgPrice) ==
    [ctx |-> [ctx EXCEPT !.Status = "Filled", !.LastReport.Time = time,
                         !.LastReport.Kind = "Filled",
                         !.LastReport.Amount = executedAmount,
                         !.LastReport.Price = avgPrice,
                         !.Order.Price = avgPrice],
     err |-> ErrNone]

\* The aggregation of OrderFilled, in unsigned arithmetic that wraps around.
\* The division panics when the wrapped sum of the amounts is zero; Status
\* and Time are written by then, and the deferred Unlock releases the mutex,
\* so a caller that recovers finds the tracker usable, with this context.
FilledResult(ctx, time, executedAmount, avgPrice) ==
    LET marked == [ctx EXCEPT !.Status = "Filled", !.LastReport.Time = time]
        rep == ctx.LastReport
        divisor == Uint(rep.Amount + executedAmount)
    IN  IF rep.Kind = "Filled"
        THEN IF divisor = 0
             THEN [ctx |-> marked, err |-> Panic]
             ELSE [ctx |-> [marked EXCEPT
                       !.LastReport.Price =
                           Uint(Uint(rep.Amount * rep.Price) + Uint(executedAmount * avgPrice))
                               \div divisor,
                       !.LastReport.Amount = divisor],
                   err |-> ErrNone]
        ELSE [ctx |-> [marked EXCEPT !.LastReport.Kind = "Filled",
                                     !.LastReport.Amount = executedAmount,
                                     !.LastReport.Price = avgPrice],
              err |-> ErrNone]

\* Mutant: a context that ends Unplaced is removed from the order index.
OnContextEvicts(c, clid, res) ==
    /\ IF clid \notin DOMAIN orders
       THEN /\ Called(c, ErrOrderNotFound)
            /\ UNCHANGED orders
       ELSE /\ Called(c, res.err)
            /\ orders' = IF res.ctx.Status = "Unplaced"
                         THEN [x \in DOMAIN orders \ {clid} |-> orders[x]]
                         ELSE [orders EXCEPT ![clid] = res.ctx]
    /\ out' = NoOutput
    /\ UNCHANGED exchanges

\* The common frame of the methods that take a client id: look the context
\* up, fail when it is nil, otherwise store what the method made of it.
OnContext(c, clid, res) ==
    /\ IF clid \notin DOMAIN orders
       THEN /\ Called(c, ErrOrderNotFound)
            /\ UNCHANGED orders
       ELSE /\ Called(c, res.err)
            /\ orders' = [orders EXCEPT ![clid] = res.ctx]
    /\ out' = NoOutput
    /\ UNCHANGED exchanges

\* The context of clid, for a method to work on (unused when clid is unknown).
Ctx(clid) == MapGet(orders, clid, PlacingContext(ZeroOrder))

OrderPlaceConfirmed(clid, time) ==
    OnContext([op |-> "OrderPlaceConfirmed", clid |-> clid, time |-> time], clid,
              PlaceConfirmedResult(Ctx(clid), time))

OrderRejected(clid, time, reason) ==
    OnContext([op |-> "OrderRejected", clid |-> clid, time |-> time, reason |-> reason], clid,
              RejectedResult(Ctx(clid), time, reason))

OrderMoving(clid) ==
    OnContext([op |-> "OrderMoving", clid |-> clid], clid, MovingResult(Ctx(clid)))

OrderMoveConfirmed(clid, time, price) ==
    OnContext([op |-> "OrderMoveConfirmed", clid |-> clid, time |-> time, price |-> price], clid,
              MoveConfirmedResult(Ctx(clid), time, price))

OrderCancelling(clid) ==
    OnContext([op |-> "OrderCancelling", clid |-> clid], clid, CancellingResult(Ctx(clid)))

OrderCancelConfirmed(clid, time) ==
    OnContext([op |-> "OrderCancelConfirmed", clid |-> clid, time |-> time], clid,
              CancelConfirmedResult(Ctx(clid), time))

OrderFilled(clid, time, executedAmount, avgPrice) ==
    OnContext([op |-> "OrderFilled", clid |-> clid, time |-> time,
               executedAmount |-> executedAmount, avgPrice |-> avgPrice], clid,
              FilledResult(Ctx(clid), time, executedAmount, avgPrice))

\* ---------------------------------------------------------------- lookups
\* Contents of the variables a caller hands to GetOrderStatus by pointer:
\* fresh (zero) ones, or ones that hold something from earlier.
OldOrder == [ClientID |-> "old", Exchange |-> 2, Symbol |-> "OLD", Amount |-> 3, Price |-> 3]

OldReport == [Kind |-> "Canceled", Time |-> 1, Message |-> "old", Amount |-> 3, Price |-> 3]

CallerVariables == {<<ZeroOrder, ZeroReport>>, <<OldOrder, OldReport>>}

\* Mutant: the outputs are cleared when the context does not exist.
StatusResultClears(ords, clid, order, executionReport) ==
    IF clid \notin DOMAIN ords
    THEN [status |-> "Unplaced", order |-> ZeroOrder, report |-> ZeroReport,
          err |-> ErrOrderNotFound]
    ELSE [status |-> ords[clid].Status, order |-> ords[clid].Order,
          report |-> ords[clid].LastReport, err |-> ErrNone]

\* What GetOrderStatus returns and leaves behind its two pointers: the
\* order and the report are written only when the context exists.
StatusResult(ords, clid, order, executionReport) ==
    IF clid \notin DOMAIN ords
    THEN [status |-> "Unplaced", order |-> order, report |-> executionReport,
          err |-> ErrOrderNotFound]
    ELSE [status |-> ords[clid].Status, order |-> ords[clid].Order,
          report |-> ords[clid].LastReport, err |-> ErrNone]

GetOrderStatus(clid, order, executionReport) ==
    LET res == StatusResult(orders, clid, order, executionReport)
    IN  /\ Called([op |-> "GetOrderStatus", clid |-> clid, order |-> order,
                    executionReport |-> executionReport], res.err)
        /\ out' = [status |-> res.status, order |-> res.order, report |-> res.report,
                   count |-> 0]
        /\ UNCHANGED <<orders, exchanges>>

\* len(t.orders)
OrdersCount(ords) == Cardinality(DOMAIN ords)

GetOrdersCount ==
    /\ Called([op |-> "GetOrdersCount"], ErrNone)
    /\ out' = [NoOutput EXCEPT !.count = OrdersCount(orders)]
    /\ UNCHANGED <<orders, exchanges>>

\* ---------------------------------------------------------------- PushQuote
\* Mutant: PushQuote stores a fresh marketData with the quote.
QuoteExchangesFresh(exs, exchangeID, symbolID, bid, ask) ==
    LET exchange == MapGet(exs, exchangeID, EmptyMap)
    IN  MapPut(exs, exchangeID,
               MapPut(exchange, symbolID,
                      [ZeroMarketData EXCEPT !.bid = bid, !.ask = ask]))

QuoteExchanges(exs, exchangeID, symbolID, bid, ask) ==
    LET exchange == MapGet(exs, exchangeID, EmptyMap)
        symbolContext == MapGet(exchange, symbolID, ZeroMarketData)
    IN  MapPut(exs, exchangeID,
               MapPut(exchange, symbolID,
                      [symbolContext EXCEPT !.bid = bid, !.ask = ask]))

PushQuote(exchangeID, symbolID, bid, ask) ==
    /\ Called([op |-> "PushQuote", exchange |-> exchangeID, symbol |-> symbolID,
               bid |-> bid, ask |-> ask], ErrNone)
    /\ exchanges' = QuoteExchanges(exchanges, exchangeID, symbolID, bid, ask)
    /\ out' = NoOutput
    /\ UNCHANGED orders

\* ------------------------------------------------------------ specification
Next ==
    \/ \E order \in Orders : OrderPlacing(order)
    \/ \E clid \in ActiveIDs, time \in Times : OrderPlaceConfirmed(clid, time)
    \/ \E clid \in ActiveIDs, time \in Times, reason \in Reasons :
           OrderRejected(clid, time, reason)
    \/ \E clid \in ActiveIDs : OrderMoving(clid)
    \/ \E clid \in ActiveIDs, time \in Times, price \in MovePrices :
           OrderMoveConfirmed(clid, time, price)
    \/ \E clid \in ActiveIDs : OrderCancelling(clid)
    \/ \E clid \in ActiveIDs, time \in Times : OrderCancelConfirmed(clid, time)
    \/ \E clid \in ActiveIDs, time \in Times, a \in FillAmounts, p \in FillPrices :
           OrderFilled(clid, time, a, p)
    \/ \E clid \in ClientIDs, v \in CallerVariables : GetOrderStatus(clid, v[1], v[2])
    \/ GetOrdersCount
    \/ \E e \in Exchanges, s \in Symbols, bid \in Bids, ask \in Asks :
           PushQuote(e, s, bid, ask)

Spec == Init /\ [][Next]_vars

\* ------------------------------------------------- goroutines and the mutex
\* The orders the goroutines place: two different orders under one client
\* id, and orders of other ids on the same exchange, one on another symbol.
ConcOrders ==
    {[ClientID |-> "c1", Exchange |-> 1, Symbol |-> "BTC", Amount |-> 1, Price |-> 1],
     [ClientID |-> "c1", Exchange |-> 2, Symbol |-> "BTC", Amount |-> 1, Price |-> 1],
     [ClientID |-> "c2", Exchange |-> 1, Symbol |-> "ETH", Amount |-> 1, Price |-> 1],
     [ClientID |-> "c3", Exchange |-> 1, Symbol |-> "BTC", Amount |-> 1, Price |-> 1]}

\* The calls a goroutine makes: one of each method besides OrderPlacing.
ConcCalls ==
    {[op |-> "OrderPlacing", order |-> o] : o \in ConcOrders}
    \cup {[op |-> "OrderPlaceConfirmed", clid |-> "c1", time |-> 1]}
    \cup {[op |-> "OrderRejected", clid |-> "c1", time |-> 1, reason |-> "r1"]}
    \cup {[op |-> "OrderMoving", clid |-> "c1"]}
    \cup {[op |-> "OrderMoveConfirmed", clid |-> "c1", time |-> 1, price |-> 2]}
    \cup {[op |-> "OrderCancelling", clid |-> "c1"]}
    \cup {[op |-> "OrderCancelConfirmed", clid |-> "c1", time |-> 1]}
    \cup {[op |-> "OrderFilled", clid |-> "c1", time |-> 1, executedAmount |-> 0,
           avgPrice |-> 1]}
    \cup {[op |-> "GetOrderStatus", clid |-> "c1", order |-> ZeroOrder,
           executionReport |-> ZeroReport]}
    \cup {[op |-> "GetOrdersCount"]}
    \cup {[op |-> "PushQuote", exchange |-> 1, symbol |-> "BTC", bid |-> 2, ask |-> 1]}

\* What a method on one context does to the tracker: see OnContext.
ContextEffect(clid, res) ==
    IF clid \notin DOMAIN orders
    THEN [orders |-> orders, exchanges |-> exchanges, ret |-> ErrOrderNotFound,
          out |-> NoOutput]
    ELSE [orders |-> [orders EXCEPT ![clid] = res.ctx], exchanges |-> exchanges,
          ret |-> res.err, out |-> NoOutput]

\* What the body of a method other than OrderPlacing, from its first
\* statement after the Lock to its return, does to the tracker and hands to
\* its caller.
Effect(c) ==
    CASE c.op = "OrderPlaceConfirmed" ->
             ContextEffect(c.clid, PlaceConfirmedResult(Ctx(c.clid), c.time))
      [] c.op = "OrderRejected" ->
             ContextEffect(c.clid, RejectedResult(Ctx(c.clid), c.time, c.reason))
      [] c.op = "OrderMoving" ->
             ContextEffect(c.clid, MovingResult(Ctx(c.clid)))
      [] c.op = "OrderMoveConfirmed" ->
             ContextEffect(c.clid, MoveConfirmedResult(Ctx(c.clid), c.time, c.price))
      [] c.op = "OrderCancelling" ->
             ContextEffect(c.clid, CancellingResult(Ctx(c.clid)))
      [] c.op = "OrderCancelConfirmed" ->
             ContextEffect(c.clid, CancelConfirmedResult(Ctx(c.clid), c.time))
      [] c.op = "OrderFilled" ->
             ContextEffect(c.clid, FilledResult(Ctx(c.clid), c.time, c.executedAmount,
                                                c.avgPrice))
      [] c.op = "GetOrderStatus" ->
             LET res == StatusResult(orders, c.clid, c.order, c.executionReport)
             IN  [orders |-> orders, exchanges |-> exchanges, ret |-> res.err,
                  out |-> [status |-> res.status, order |-> res.order,
                           report |-> res.report, count |-> 0]]
      [] c.op = "GetOrdersCount" ->
             [orders |-> orders, exchanges |-> exchanges, ret |-> ErrNone,
              out |-> [NoOutput EXCEPT !.count = OrdersCount(orders)]]
      [] c.op = "PushQuote" ->
             [orders |-> orders,
              exchanges |-> QuoteExchanges(exchanges, c.exchange, c.symbol, c.bid, c.ask),
              ret |-> ErrNone, out |-> NoOutput]

\* A goroutine's step moves nothing of the single caller or the generator.
GoroutineStep == UNCHANGED <<call, ret, out, genVars>>

\* Goroutine g moves to pc.
Goto(g, pc) == goroutines' = [goroutines EXCEPT ![g].pc = pc]

\* A goroutine calls a method of the tracker.
Invoke(g, c) ==
    /\ goroutines[g].pc = "idle"
    /\ goroutines' = [goroutines EXCEPT ![g].pc = "Lock", ![g].call = c]
    /\ UNCHANGED <<orders, exchanges, guard>>
    /\ GoroutineStep

\* Mutant: the method does not wait for the mutex.
LockUnguarded(g) ==
    /\ goroutines[g].pc = "Lock"
    /\ guard' = Locked
    /\ Goto(g, IF goroutines[g].call.op = "OrderPlacing" THEN "exists" ELSE "body")
    /\ UNCHANGED <<orders, exchanges>>
    /\ GoroutineStep

\* t.guard.Lock(): the first statement of every method.
Lock(g) ==
    /\ goroutines[g].pc = "Lock"
    /\ guard = Unlocked
    /\ guard' = Locked
    /\ Goto(g, IF goroutines[g].call.op = "OrderPlacing" THEN "exists" ELSE "body")
    /\ UNCHANGED <<orders, exchanges>>
    /\ GoroutineStep

\* OrderPlacing: if _, exists := t.orders[order.ClientID]; exists { return ... }
PlaceExists(g) ==
    /\ goroutines[g].pc = "exists"
    /\ IF goroutines[g].call.order.ClientID \in DOMAIN orders
       THEN goroutines' = [goroutines EXCEPT ![g].pc = "Unlock",
                                             ![g].ret = ErrDuplicateOrder]
       ELSE Goto(g, "store")
    /\ UNCHANGED <<orders, exchanges, guard>>
    /\ GoroutineStep

\* OrderPlacing: t.orders[order.ClientID] = orderContext
PlaceStore(g) ==
    /\ goroutines[g].pc = "store"
    /\ orders' = MapPut(orders, goroutines[g].call.order.ClientID,
                        PlacingContext(goroutines[g].call.order))
    /\ Goto(g, "exchange")
    /\ UNCHANGED <<exchanges, guard>>
    /\ GoroutineStep

\* Mutant: the exchange's map is made anew whether it exists or not.
PlaceExchangeFresh(g) ==
    /\ goroutines[g].pc = "exchange"
    /\ exchanges' = MapPut(exchanges, goroutines[g].call.order.Exchange, EmptyMap)
    /\ Goto(g, "symbol")
    /\ UNCHANGED <<orders, guard>>
    /\ GoroutineStep

\* OrderPlacing: the exchange's map is made when t.exchanges has none.
PlaceExchange(g) ==
    /\ goroutines[g].pc = "exchange"
    /\ exchanges' = MapPut(exchanges, goroutines[g].call.order.Exchange,
                           MapGet(exchanges, goroutines[g].call.order.Exchange, EmptyMap))
    /\ Goto(g, "symbol")
    /\ UNCHANGED <<orders, guard>>
    /\ GoroutineStep

\* OrderPlacing: the symbol's marketData gets the pointer; return nil.
PlaceSymbol(g) ==
    /\ goroutines[g].pc = "symbol"
    /\ exchanges' = PlacingExchanges(exchanges, goroutines[g].call.order)
    /\ goroutines' = [goroutines EXCEPT ![g].pc = "Unlock", ![g].ret = ErrNone]
    /\ UNCHANGED <<orders, guard>>
    /\ GoroutineStep

\* The body of any other method, which no other goroutine can observe in
\* part: it ends at a return statement or in a panic.
Body(g) ==
    /\ goroutines[g].pc = "body"
    /\ LET eff == Effect(goroutines[g].call)
       IN  /\ orders' = eff.orders
           /\ exchanges' = eff.exchanges
           /\ goroutines' = [goroutines EXCEPT ![g].pc = "Unlock", ![g].ret = eff.ret,
                                                 ![g].out = eff.out]
    /\ UNCHANGED guard
    /\ GoroutineStep

\* defer t.guard.Unlock(): runs at the return and also when the body
\* panics; the call then returns, or the panic goes on to the caller.
Unlock(g) ==
    /\ goroutines[g].pc = "Unlock"
    /\ guard' = Unlocked
    /\ Goto(g, IF goroutines[g].ret = Panic THEN "panicked" ELSE "returned")
    /\ UNCHANGED <<orders, exchanges>>
    /\ GoroutineStep

ConcNext ==
    \/ \E g \in Goroutines, c \in ConcCalls : Invoke(g, c)
    \/ \E g \in Goroutines : Lock(g)
    \/ \E g \in Goroutines : PlaceExists(g)
    \/ \E g \in Goroutines : PlaceStore(g)
    \/ \E g \in Goroutines : PlaceExchange(g)
    \/ \E g \in Goroutines : PlaceSymbol(g)
    \/ \E g \in Goroutines : Body(g)
    \/ \E g \in Goroutines : Unlock(g)

ConcSpec == Init /\ [][ConcNext]_vars

\* A goroutine that can run does run, and sync.Mutex hands the lock to a
\* goroutine that keeps waiting for it (starvation mode).
FairConcSpec ==
    /\ ConcSpec
    /\ \A g \in Goroutines :
           /\ SF_vars(Lock(g))
           /\ WF_vars(PlaceExists(g) \/ PlaceStore(g) \/ PlaceExchange(g)
                         \/ PlaceSymbol(g) \/ Body(g) \/ Unlock(g))

\* ---------------------------------------------------- GenerateClientOrderID
\* Width in bits of the sequence part of a client id (16 in the source: the
\* shift of the clock and the mask 0xFFFF of the counter).
SequenceBits == 2

\* Width in bits of the counter (atomic.Uint32: twice the sequence part).
CounterBits == 2 * SequenceBits

\* The last second the clock reaches.
MaxNow == 2

\* Calls of GenerateClientOrderID in a run: one more than the mask can tell
\* apart.
MaxIssued == 2 ^ SequenceBits + 1

\* a | b and a & b on unsigned integers.
RECURSIVE BitOr(_, _)
BitOr(a, b) ==
    IF a = 0 THEN b
    ELSE IF b = 0 THEN a
    ELSE 2 * BitOr(a \div 2, b \div 2) + (IF a % 2 = 1 \/ b % 2 = 1 THEN 1 ELSE 0)

RECURSIVE BitAnd(_, _)
BitAnd(a, b) ==
    IF a = 0 \/ b = 0 THEN 0
    ELSE 2 * BitAnd(a \div 2, b \div 2) + (IF a % 2 = 1 /\ b % 2 = 1 THEN 1 ELSE 0)

HexDigits == <<"0", "1", "2", "3", "4", "5", "6", "7", "8", "9", "a", "b", "c", "d", "e", "f">>

\* strconv.FormatUint(n, base): the digits of n, most significant first.
RECURSIVE FormatUint(_, _)
FormatUint(n, base) ==
    IF n < base
    THEN <<HexDigits[n + 1]>>
    ELSE Append(FormatUint(n \div base, base), HexDigits[(n % base) + 1])

\* uint64(unix<<16) | uint64(counter&0xFFFF), formatted in base 16.
ClientOrderID(unix, counter) ==
    FormatUint(BitOr(unix * 2 ^ SequenceBits, BitAnd(counter, 2 ^ SequenceBits - 1)), 16)

\* A step of the generator moves nothing of the tracker or its callers.
GeneratorStep == UNCHANGED <<orders, exchanges, call, ret, out, concVars>>

\* GenerateClientOrderID, left operand: time.Now().Unix()
ReadClock(g) ==
    /\ generators[g].pc = "idle"
    /\ Len(issued) + Cardinality({h \in Goroutines : generators[h].pc = "Add"}) < MaxIssued
    /\ generators' = [generators EXCEPT ![g] = [pc |-> "Add", unix |-> now]]
    /\ UNCHANGED <<now, clientIDCounter, issued>>
    /\ GeneratorStep

\* GenerateClientOrderID, right operand and return: clientIDCounter.Add(1),
\* an atomic increment that wraps around, then the id of the two parts.
AddCounter(g) ==
    /\ generators[g].pc = "Add"
    /\ clientIDCounter' = (clientIDCounter + 1) % 2 ^ CounterBits
    /\ issued' = Append(issued, ClientOrderID(generators[g].unix, clientIDCounter'))
    /\ generators' = [generators EXCEPT ![g].pc = "idle"]
    /\ UNCHANGED now
    /\ GeneratorStep

\* A second passes.
Tick ==
    /\ now < MaxNow
    /\ now' = now + 1
    /\ UNCHANGED <<clientIDCounter, generators, issued>>
    /\ GeneratorStep

GenNext ==
    \/ \E g \in Goroutines : ReadClock(g)
    \/ \E g \in Goroutines : AddCounter(g)
    \/ Tick

GenSpec == Init /\ [][GenNext]_vars

\* ------------------------------------------------------------------ claims
\* The client id the last call names, and whether it was tracked before and
\* is tracked after a step.
Tracked(ords, clid) == clid \in DOMAIN ords

\* A step is a call of method op on a client id the tracker knows.
StepOnTracked(op) ==
    /\ call'.op = op
    /\ Tracked(orders, call'.clid)

\* C1: OrderPlacing with a client id that is not in the order index returns
\* no error, makes the order count one larger, and GetOrderStatus for that id
\* then gives status Placing, report kind None and the order as it was given.
C1_PlaceFresh ==
    [][(call'.op = "OrderPlacing" /\ ~Tracked(orders, call'.order.ClientID)) =>
          LET order == call'.order
              got == StatusResult(orders', order.ClientID, OldOrder, OldReport)
          IN  /\ ret' = ErrNone
              /\ OrdersCount(orders') = OrdersCount(orders) + 1
              /\ got.err = ErrNone
              /\ got.status = "Placing"
              /\ got.report.Kind = "None"
              /\ got.order = order]_vars

\* A second order has just been placed.
C1_Witness ==
    /\ call.op = "OrderPlacing"
    /\ ret = ErrNone
    /\ OrdersCount(orders) = 2
    /\ orders[call.order.ClientID].Status = "Placing"
    /\ orders[call.order.ClientID].Order = call.order

\* C2: OrderPlacing with a client id that is already in the order index
\* returns the duplicate error and changes neither the order index nor the
\* market index, whatever the status of the existing order.
C2_PlaceDuplicate ==
    [][(call'.op = "OrderPlacing" /\ Tracked(orders, call'.order.ClientID)) =>
          /\ ret' = ErrDuplicateOrder
          /\ orders' = orders
          /\ exchanges' = exchanges]_vars

\* A duplicate of a filled order on another exchange has just been refused,
\* while the other exchange's entry exists and points to another order.
C2_Witness ==
    /\ call.op = "OrderPlacing"
    /\ ret = ErrDuplicateOrder
    /\ orders[call.order.ClientID].Status = "Filled"
    /\ orders[call.order.ClientID].Order.Exchange # call.order.Exchange
    /\ call.order.Exchange \in DOMAIN exchanges
    /\ exchanges[call.order.Exchange][call.order.Symbol].orderContext # call.order.ClientID

\* C3: from the required prior status, each start and confirm method returns
\* no error and gives the status and report kind of the transition table;
\* a confirmed move also reports and stores the new price.
C3_ValidTransitions ==
    [][/\ (StepOnTracked("OrderPlaceConfirmed") /\ orders[call'.clid].Status = "Placing") =>
            /\ ret' = ErrNone
            /\ orders'[call'.clid].Status = "Placed"
            /\ orders'[call'.clid].LastReport.Kind = "Placed"
       /\ (StepOnTracked("OrderMoving") /\ orders[call'.clid].Status = "Placed") =>
            /\ ret' = ErrNone
            /\ orders'[call'.clid].Status = "Modifying"
            /\ orders'[call'.clid].LastReport.Kind = "None"
       /\ (StepOnTracked("OrderMoveConfirmed") /\ orders[call'.clid].Status = "Modifying") =>
            /\ ret' = ErrNone
            /\ orders'[call'.clid].Status = "Placed"
            /\ orders'[call'.clid].LastReport.Kind = "Modified"
            /\ orders'[call'.clid].LastReport.Price = call'.price
       /\ (StepOnTracked("OrderCancelling") /\ orders[call'.clid].Status = "Placed") =>
            /\ ret' = ErrNone
            /\ orders'[call'.clid].Status = "Canceling"
            /\ orders'[call'.clid].LastReport.Kind = "None"
       /\ (StepOnTracked("OrderCancelConfirmed") /\ orders[call'.clid].Status = "Canceling") =>
            /\ ret' = ErrNone
            /\ orders'[call'.clid].Status = "Unplaced"
            /\ orders'[call'.clid].LastReport.Kind = "Canceled"]_vars

\* A cancel has just been confirmed on an order that carries the price of a
\* confirmed move: the order went through all five transitions.
C3_Witness ==
    /\ call.op = "OrderCancelConfirmed"
    /\ ret = ErrNone
    /\ orders[call.clid].Status = "Unplaced"
    /\ orders[call.clid].LastReport.Kind = "Canceled"
    /\ orders[call.clid].Order.Price \in MovePrices

\* C4: OrderRejected on an order in Placing makes it Unplaced, on an order in
\* Modifying or Canceling makes it Placed; both return no error and leave a
\* report of kind Rejected with the given time and reason.
C4_Reject ==
    [][(StepOnTracked("OrderRejected")
          /\ orders[call'.clid].Status \in {"Placing", "Modifying", "Canceling"}) =>
          /\ ret' = ErrNone
          /\ orders'[call'.clid].Status =
                 IF orders[call'.clid].Status = "Placing" THEN "Unplaced" ELSE "Placed"
          /\ orders'[call'.clid].LastReport.Kind = "Rejected"
          /\ orders'[call'.clid].LastReport.Time = call'.time
          /\ orders'[call'.clid].LastReport.Message = call'.reason]_vars

\* A rejection has just put an order back to Placed.
C4_Witness ==
    /\ call.op = "OrderRejected"
    /\ ret = ErrNone
    /\ orders[call.clid].Status = "Placed"
    /\ orders[call.clid].LastReport.Kind = "Rejected"
    /\ orders[call.clid].LastReport.Message \in Reasons

\* The status GetOrderStatus returns for a client id: Unplaced when the id is
\* not in the order index.
StatusOf(ords, clid) == StatusResult(ords, clid, ZeroOrder, ZeroReport).status

\* C5 as stated: OrderPlaceConfirmed on an order whose status is not Placing,
\* be it Unplaced because OrderPlacing was never called for its id, returns
\* the invalid-transition error, leaves a report of kind Placed with the given
\* time, and leaves the status as it was.
C5_AsStated ==
    [][(call'.op = "OrderPlaceConfirmed" /\ StatusOf(orders, call'.clid) # "Placing") =>
          /\ ret' = ErrInvalidTransition
          /\ Tracked(orders', call'.clid)
          /\ orders'[call'.clid].LastReport.Kind = "Placed"
          /\ orders'[call'.clid].LastReport.Time = call'.time
          /\ StatusOf(orders', call'.clid) = StatusOf(orders, call'.clid)]_vars

\* C5 (amended): OrderPlaceConfirmed on a tracked order whose status is not
\* Placing returns the invalid-transition error, leaves a report of kind
\* Placed with the given time, and leaves the status as it was; for a client
\* id that was never placed it returns the not-found error and records
\* nothing.
C5_PlaceConfirmedInvalid ==
    [][/\ (StepOnTracked("OrderPlaceConfirmed") /\ orders[call'.clid].Status # "Placing") =>
            /\ ret' = ErrInvalidTransition
            /\ orders'[call'.clid].LastReport.Kind = "Placed"
            /\ orders'[call'.clid].LastReport.Time = call'.time
            /\ orders'[call'.clid].Status = orders[call'.clid].Status
       /\ (call'.op = "OrderPlaceConfirmed" /\ ~Tracked(orders, call'.clid)) =>
            /\ ret' = ErrOrderNotFound
            /\ orders' = orders]_vars

\* A placement confirmation has just been refused on an order that a reject
\* or a confirmed cancel had unplaced, and its report says Placed.
C5_Witness ==
    /\ call.op = "OrderPlaceConfirmed"
    /\ ret = ErrInvalidTransition
    /\ orders[call.clid].Status = "Unplaced"
    /\ orders[call.clid].LastReport.Kind = "Placed"
    /\ orders[call.clid].LastReport.Time = call.time

\* C6: OrderRejected, OrderMoveConfirmed and OrderCancelConfirmed on a tracked
\* order outside the required status return the invalid-transition error and
\* leave the status and the order as they were, but overwrite the last report
\* with their kind, their time, and the reason or the price.
C6_ReportOnInvalid ==
    [][/\ (StepOnTracked("OrderRejected")
             /\ orders[call'.clid].Status \notin {"Placing", "Modifying", "Canceling"}) =>
            /\ ret' = ErrInvalidTransition
            /\ orders'[call'.clid].Status = orders[call'.clid].Status
            /\ orders'[call'.clid].Order = orders[call'.clid].Order
            /\ orders'[call'.clid].LastReport.Kind = "Rejected"
            /\ orders'[call'.clid].LastReport.Time = call'.time
            /\ orders'[call'.clid].LastReport.Message = call'.reason
       /\ (StepOnTracked("OrderMoveConfirmed") /\ orders[call'.clid].Status # "Modifying") =>
            /\ ret' = ErrInvalidTransition
            /\ orders'[call'.clid].Status = orders[call'.clid].Status
            /\ orders'[call'.clid].Order = orders[call'.clid].Order
            /\ orders'[call'.clid].LastReport.Kind = "Modified"
            /\ orders'[call'.clid].LastReport.Time = call'.time
            /\ orders'[call'.clid].LastReport.Price = call'.price
       /\ (StepOnTracked("OrderCancelConfirmed") /\ orders[call'.clid].Status # "Canceling") =>
            /\ ret' = ErrInvalidTransition
            /\ orders'[call'.clid].Status = orders[call'.clid].Status
            /\ orders'[call'.clid].Order = orders[call'.clid].Order
            /\ orders'[call'.clid].LastReport.Kind = "Canceled"
            /\ orders'[call'.clid].LastReport.Time = call'.time]_vars

\* A move confirmation has just been refused: the report carries the new
\* price and the order still has its own.
C6_Witness ==
    /\ call.op = "OrderMoveConfirmed"
    /\ ret = ErrInvalidTransition
    /\ orders[call.clid].LastReport.Kind = "Modified"
    /\ orders[call.clid].LastReport.Price = call.price
    /\ orders[call.clid].Order.Price # call.price

\* C7: OrderFilled on a tracked order returns no error and leaves the status
\* Filled, for every status, previous report, amount and price.
C7_FillNeverFails ==
    (call.op = "OrderFilled" /\ Tracked(orders, call.clid)) =>
        /\ ret = ErrNone
        /\ orders[call.clid].Status = "Filled"

\* C8: OrderFilled leaves a report of kind Filled; after a report of another
\* kind its amount and price are the given ones, after a Filled report with
\* amount A and price P they are A + a and (A*P + a*p) div (A + a), in exact
\* integer arithmetic (where A + a is 0 the quotient is not defined and
\* nothing is asked).
C8_FillAggregation ==
    [][StepOnTracked("OrderFilled") =>
          LET rep == orders[call'.clid].LastReport
              new == orders'[call'.clid].LastReport
              a == call'.executedAmount
              p == call'.avgPrice
          IN  IF rep.Kind # "Filled"
              THEN new.Kind = "Filled" /\ new.Amount = a /\ new.Price = p
              ELSE rep.Amount + a > 0 =>
                      /\ new.Kind = "Filled"
                      /\ new.Amount = rep.Amount + a
                      /\ new.Price = (rep.Amount * rep.Price + a * p) \div (rep.Amount + a)]_vars

\* C9: once an order has been filled (its status is Filled, which only
\* OrderFilled sets and nothing leaves), no step makes its report's amount
\* smaller.
C9_AmountNeverDecreases ==
    [][\A clid \in DOMAIN orders :
          orders[clid].Status = "Filled" =>
              orders'[clid].LastReport.Amount >= orders[clid].LastReport.Amount]_vars

\* The methods that take a client id.
ClientIDMethods ==
    {"OrderPlaceConfirmed", "OrderRejected", "OrderMoving", "OrderMoveConfirmed",
     "OrderCancelling", "OrderCancelConfirmed", "OrderFilled", "GetOrderStatus"}

\* C10: a method called with a client id that is not in the order index
\* returns the not-found error and changes neither the order index (no entry
\* appears, the count stays) nor the market index; GetOrderStatus leaves the
\* caller's order and report as they were.
C10_NotFound ==
    [][(call'.op \in ClientIDMethods /\ ~Tracked(orders, call'.clid)) =>
          /\ ret' = ErrOrderNotFound
          /\ orders' = orders
          /\ OrdersCount(orders') = OrdersCount(orders)
          /\ exchanges' = exchanges
          /\ call'.op = "GetOrderStatus" =>
                 /\ out'.order = call'.order
                 /\ out'.report = call'.executionReport]_vars

\* A lookup of an unknown id has just failed in a tracker that holds another
\* order, and the caller's variables still hold their earlier contents.
C10_Witness ==
    /\ call.op = "GetOrderStatus"
    /\ ret = ErrOrderNotFound
    /\ out.order = OldOrder
    /\ out.report = OldReport
    /\ OrdersCount(orders) = 1
    /\ exchanges # EmptyMap

\* The (exchange, symbol) pairs that have an entry in the market index, and
\* the marketData of a pair (the zero value when it has no entry).
Entries(exs) == UNION {{<<e, s>> : s \in DOMAIN exs[e]} : e \in DOMAIN exs}

Entry(exs, e, s) == MapGet(MapGet(exs, e, EmptyMap), s, ZeroMarketData)

C15_OrderFrame ==
    [][\A clid \in DOMAIN orders :
          /\ Tracked(orders', clid)
          /\ orders'[clid].Order.ClientID = orders[clid].Order.ClientID
          /\ orders'[clid].Order.Exchange = orders[clid].Order.Exchange
          /\ orders'[clid].Order.Symbol = orders[clid].Order.Symbol
          /\ orders'[clid].Order.Amount = orders[clid].Order.Amount
          /\ orders'[clid].Order.Price # orders[clid].Order.Price =>
                 /\ call'.op = "OrderMoveConfirmed"
                 /\ call'.clid = clid
                 /\ ret' = ErrNone
                 /\ orders[clid].Status = "Modifying"
                 /\ orders'[clid].Order.Price = call'.price]_vars

\* A fill has just left alone the price a confirmed move gave the order.
C15_Witness ==
    /\ call.op = "OrderFilled"
    /\ ret = ErrNone
    /\ orders[call.clid].Order.Price \in MovePrices
    /\ orders[call.clid].Order.Price # call.avgPrice
    /\ orders[call.clid].Order.Amount \in OrderAmounts

\* C16: an order whose status is Filled is Filled after every step.
C16_FilledIsTerminal ==
    [][\A clid \in DOMAIN orders :
          orders[clid].Status = "Filled" =>
              Tracked(orders', clid) /\ orders'[clid].Status = "Filled"]_vars

\* A rejection has just been refused on a filled order, which stays Filled.
C16_Witness ==
    /\ call.op = "OrderRejected"
    /\ ret = ErrInvalidTransition
    /\ orders[call.clid].Status = "Filled"
    /\ orders[call.clid].LastReport.Kind = "Rejected"

\* C17: a new tracker holds no order; no step removes a client id from the
\* order index, and the count grows by one in exactly the OrderPlacing steps
\* that return no error, so it is the number of such steps; every id in the
\* index is found by GetOrderStatus whatever its status.
C17_IndexOnlyGrows ==
    [][/\ call.op = "NewTracker" => OrdersCount(orders) = 0
       /\ DOMAIN orders \subseteq DOMAIN orders'
       /\ OrdersCount(orders') = OrdersCount(orders)
              + (IF call'.op = "OrderPlacing" /\ ret' = ErrNone THEN 1 ELSE 0)
       /\ \A clid \in DOMAIN orders' :
              StatusResult(orders', clid, OldOrder, OldReport).err = ErrNone]_vars

\* A filled order has just been looked up and found, in an index of two.
C17_Witness ==
    /\ call.op = "GetOrderStatus"
    /\ ret = ErrNone
    /\ out.status = "Filled"
    /\ out.order.ClientID = call.clid
    /\ OrdersCount(orders) = 2

\* C18: OrderMoving and OrderCancelling on a tracked order whose status is
\* not Placed return the invalid-transition error and leave its status, its
\* order and its whole last report as they were.
C18_StartInvalid ==
    [][((StepOnTracked("OrderMoving") \/ StepOnTracked("OrderCancelling"))
          /\ orders[call'.clid].Status # "Placed") =>
          /\ ret' = ErrInvalidTransition
          /\ orders' = orders
          /\ exchanges' = exchanges]_vars

\* The start of a cancel has just been refused on an order whose last report
\* is a rejection, and the report is still that rejection.
C18_Witness ==
    /\ call.op = "OrderCancelling"
    /\ ret = ErrInvalidTransition
    /\ orders[call.clid].Status = "Unplaced"
    /\ orders[call.clid].LastReport.Kind = "Rejected"
    /\ orders[call.clid].LastReport.Message \in Reasons

\* Every pointer in the market index is nil or points to a context of the
\* order index whose order names the entry's exchange and symbol.
BackReferencesValid(ords, exs) ==
    \A k \in Entries(exs) :
        LET ref == exs[k[1]][k[2]].orderContext
        IN  \/ ref = NilContext
            \/ /\ Tracked(ords, ref)
               /\ ords[ref].Order.Exchange = k[1]
               /\ ords[ref].Order.Symbol = k[2]

\* C19: the pointers of the market index are always valid; an OrderPlacing
\* that returns no error makes its entry point to the new context and keeps
\* the entry's bid and ask, and no other step changes any pointer, so each
\* pointer is that of the latest such OrderPlacing on its pair.
C19_BackReferences ==
    [][/\ BackReferencesValid(orders', exchanges')
       /\ IF call'.op = "OrderPlacing" /\ ret' = ErrNone
          THEN LET e == call'.order.Exchange
                   s == call'.order.Symbol
               IN  /\ exchanges'[e][s] =
                          [Entry(exchanges, e, s) EXCEPT !.orderContext = call'.order.ClientID]
                   /\ \A k \in Entries(exchanges') \ {<<e, s>>} :
                          Entry(exchanges', k[1], k[2]) = Entry(exchanges, k[1], k[2])
          ELSE \A k \in Entries(exchanges') :
                   exchanges'[k[1]][k[2]].orderContext
                       = Entry(exchanges, k[1], k[2]).orderContext]_vars

\* An order has just been placed on a pair that had a quote and pointed to
\* another order: the entry points to the new one and still has the quote.
C19_Witness ==
    /\ call.op = "OrderPlacing"
    /\ ret = ErrNone
    /\ exchanges[call.order.Exchange][call.order.Symbol].orderContext = call.order.ClientID
    /\ exchanges[call.order.Exchange][call.order.Symbol].bid \in Bids
    /\ \E clid \in DOMAIN orders \ {call.order.ClientID} :
           orders[clid].Order.Exchange = call.order.Exchange

\* The goroutines that have made their call, those whose call has returned,
\* and those that hold the mutex.
Invoked == {g \in Goroutines : goroutines[g].pc # "idle"}

Returned == {g \in Goroutines : goroutines[g].pc = "returned"}

Inside == {g \in Goroutines : goroutines[g].pc \notin {"idle", "Lock", "returned", "panicked"}}

\* The order a goroutine places, and the market index key of that order.
PlacedBy(g) == goroutines[g].call.order

PlacePair(g) == <<PlacedBy(g).Exchange, PlacedBy(g).Symbol>>

\* C12: when every call made so far is an OrderPlacing and no two of them
\* name the same client id, then whenever the mutex is free every call that
\* has returned returned nil, the order index holds exactly the orders of
\* those calls, each with status Placing, and the market index holds exactly
\* the entries complete OrderPlacing calls leave: one per pair placed on,
\* with no quote and the pointer of one of the calls on that pair.
C12_DistinctPlaces ==
    (/\ guard = Unlocked
     /\ \A g \in Invoked : goroutines[g].call.op = "OrderPlacing"
     /\ \A g, h \in Invoked :
            g # h => PlacedBy(g).ClientID # PlacedBy(h).ClientID)
    => /\ \A g \in Invoked : goroutines[g].pc \in {"Lock", "returned"}
       /\ \A g \in Returned :
              /\ goroutines[g].ret = ErrNone
              /\ Tracked(orders, PlacedBy(g).ClientID)
              /\ orders[PlacedBy(g).ClientID] = PlacingContext(PlacedBy(g))
       /\ OrdersCount(orders) = Cardinality(Returned)
       /\ Entries(exchanges) = {PlacePair(g) : g \in Returned}
       /\ \A k \in Entries(exchanges) :
              /\ exchanges[k[1]][k[2]].bid = 0
              /\ exchanges[k[1]][k[2]].ask = 0
              /\ \E g \in Returned :
                     /\ PlacePair(g) = k
                     /\ exchanges[k[1]][k[2]].orderContext = PlacedBy(g).ClientID

\* Three goroutines have placed c1, c2 and c3, two of them on one pair and
\* the third on another symbol of the same exchange, and all have returned.
C12_Witness ==
    /\ Returned = Goroutines
    /\ \A g \in Goroutines : goroutines[g].call.op = "OrderPlacing"
    /\ {PlacedBy(g).ClientID : g \in Goroutines} = {"c1", "c2", "c3"}
    /\ {PlacePair(g) : g \in Goroutines} = {<<1, "BTC">>, <<1, "ETH">>}
    /\ exchanges[1]["BTC"].orderContext = "c1"

\* C20: when every call made so far is an OrderPlacing of one and the same
\* client id, then whenever the mutex is free and a call has returned,
\* exactly one call returned nil and every other returned the duplicate
\* error; the order index holds one order, that of the successful call, and
\* the market index one entry, that of the same call, pointing to it.
C20_SamePlaces ==
    (/\ guard = Unlocked
     /\ Returned # {}
     /\ \A g \in Invoked : goroutines[g].call.op = "OrderPlacing"
     /\ \A g, h \in Invoked : PlacedBy(g).ClientID = PlacedBy(h).ClientID)
    => /\ \A g \in Invoked : goroutines[g].pc \in {"Lock", "returned"}
       /\ \E w \in Returned :
              /\ goroutines[w].ret = ErrNone
              /\ \A g \in Returned \ {w} : goroutines[g].ret = ErrDuplicateOrder
              /\ OrdersCount(orders) = 1
              /\ Tracked(orders, PlacedBy(w).ClientID)
              /\ orders[PlacedBy(w).ClientID] = PlacingContext(PlacedBy(w))
              /\ Entries(exchanges) = {PlacePair(w)}
              /\ exchanges[PlacePair(w)[1]][PlacePair(w)[2]]
                     = [ZeroMarketData EXCEPT !.orderContext = PlacedBy(w).ClientID]

\* Three goroutines have placed c1, with different orders; the one that
\* placed it on exchange 2 won and one that placed it on exchange 1 lost.
C20_Witness ==
    /\ Returned = Goroutines
    /\ \A g \in Goroutines :
           goroutines[g].call.op = "OrderPlacing" /\ PlacedBy(g).ClientID = "c1"
    /\ \E w, l \in Goroutines :
           /\ goroutines[w].ret = ErrNone /\ PlacedBy(w).Exchange = 2
           /\ goroutines[l].ret = ErrDuplicateOrder /\ PlacedBy(l).Exchange = 1
    /\ orders["c1"].Order.Exchange = 2

\* At most one goroutine is between its Lock and its Unlock, and the mutex
\* is locked exactly when one is.
LockDiscipline ==
    /\ Cardinality(Inside) <= 1
    /\ guard = Locked <=> Inside # {}

\* Under FairConcSpec every call that waits for the mutex gets it and leaves
\* the tracker, by a return or by a panic.
EveryCallLeaves ==
    \A g \in Goroutines :
        goroutines[g].pc = "Lock" ~> goroutines[g].pc \in {"returned", "panicked"}

\* C13: at most one call is inside the tracker at a time, the mutex is free
\* when none is, and every call that has left the tracker has returned.
C13_AsStated ==
    /\ LockDiscipline
    /\ \A g \in Goroutines : goroutines[g].pc # "panicked"

\* C14: no two calls of GenerateClientOrderID have returned the same id.
C14_AllDifferent ==
    \A i, j \in 1..Len(issued) : i # j => issued[i] # issued[j]

====
